---- MODULE Spec2Model ----
(***************************************************************************)
(* Model of the green-taxi transcoder (src/01.py) and of the derived-column *)
(* query builder (src/02.py).                                               *)
(*                                                                          *)
(* A byte string is a sequence of one-byte tokens.  Printable ASCII bytes   *)
(* are the one-character strings; "0x0B" is the vertical tab and "0xFF" a   *)
(* byte that is not valid UTF-8 anywhere in a stream.                       *)
(***************************************************************************)
EXTENDS Naturals, Integers, Sequences, FiniteSets, TLC

VARIABLES
    src,        \* bytes behind fobj_src (the opened url)
    pos,        \* fobj_src.tell(): bytes consumed so far
    sink,       \* bytes written to fobj (main's BytesIO buf)
    pc,         \* where 01.py's main is
    err,        \* the exception that ended the run, "none" while there is none
    errArgs,    \* the exception's args
    bufClosed,  \* main's "with BytesIO() as buf" has been left
    table,      \* the PyArrow table main holds
    parquet,    \* what was written to 01.parquet
    run,        \* 1: the first normalization; 2: a normalization fed from the first one's sink
    feed,       \* what the second normalization was fed
    prevSink,   \* the sink of the first normalization, kept for the second
    qpc,        \* where 02.py's build_query is
    hour,       \* build_query's loop variable over range(num_hours)
    dow,        \* build_query's loop variable over range(num_days)
    one_hot_hour,   \* the clauses written to one_hot_hour
    one_hot_dow,    \* the clauses written to one_hot_dow
    query,      \* the SELECT list build_query returned
    row,        \* the input row the query is evaluated on
    result      \* the derived columns of that row

pipeVars == << src, pos, sink, pc, err, errArgs, bufClosed, table, parquet, run, feed, prevSink >>
queryVars == << qpc, hour, dow, one_hot_hour, one_hot_dow, query, row, result >>
vars == << pipeVars, queryVars >>

----------------------------------------------------------------------------
(* Bounds of the model. *)

\* at most this many lines follow the first line of an input
MaxLines == 2

----------------------------------------------------------------------------
(* Bytes. *)

LF == "\n"
CR == "\r"
COMMA == ","
BAD_BYTE == "0xFF"

\* the bytes bytes.rstrip() removes
WHITESPACE == { " ", "\t", "\n", "\r", "0x0B", "\f" }

Max(S) == CHOOSE m \in S : \A k \in S : k <= m
Min(S) == CHOOSE m \in S : \A k \in S : m <= k

\* HEADER: the expected column names, in order
HEADER == <<
    << "V", "e", "n", "d", "o", "r", "I", "D" >>,
    << "l", "p", "e", "p", "_", "p", "i", "c", "k", "u", "p", "_", "d", "a", "t", "e", "t", "i", "m", "e" >>,
    << "L", "p", "e", "p", "_", "d", "r", "o", "p", "o", "f", "f", "_", "d", "a", "t", "e", "t", "i", "m", "e" >>,
    << "S", "t", "o", "r", "e", "_", "a", "n", "d", "_", "f", "w", "d", "_", "f", "l", "a", "g" >>,
    << "R", "a", "t", "e", "C", "o", "d", "e", "I", "D" >>,
    << "P", "i", "c", "k", "u", "p", "_", "l", "o", "n", "g", "i", "t", "u", "d", "e" >>,
    << "P", "i", "c", "k", "u", "p", "_", "l", "a", "t", "i", "t", "u", "d", "e" >>,
    << "D", "r", "o", "p", "o", "f", "f", "_", "l", "o", "n", "g", "i", "t", "u", "d", "e" >>,
    << "D", "r", "o", "p", "o", "f", "f", "_", "l", "a", "t", "i", "t", "u", "d", "e" >>,
    << "P", "a", "s", "s", "e", "n", "g", "e", "r", "_", "c", "o", "u", "n", "t" >>,
    << "T", "r", "i", "p", "_", "d", "i", "s", "t", "a", "n", "c", "e" >>,
    << "F", "a", "r", "e", "_", "a", "m", "o", "u", "n", "t" >>,
    << "E", "x", "t", "r", "a" >>,
    << "M", "T", "A", "_", "t", "a", "x" >>,
    << "T", "i", "p", "_", "a", "m", "o", "u", "n", "t" >>,
    << "T", "o", "l", "l", "s", "_", "a", "m", "o", "u", "n", "t" >>,
    << "E", "h", "a", "i", "l", "_", "f", "e", "e" >>,
    << "T", "o", "t", "a", "l", "_", "a", "m", "o", "u", "n", "t" >>,
    << "P", "a", "y", "m", "e", "n", "t", "_", "t", "y", "p", "e" >>,
    << "T", "r", "i", "p", "_", "t", "y", "p", "e" >>
>>

\* SCHEMA.names: as many columns as HEADER, in the same order
SCHEMA_names == [ i \in 1..Len(HEADER) |-> i ]

\* bytes.rstrip(): drop the trailing run of whitespace bytes
rstrip(s) ==
    LET keep == { k \in 1..Len(s) : s[k] \notin WHITESPACE }
    IN  IF keep = {} THEN << >> ELSE SubSeq(s, 1, Max(keep))

\* bytes.decode(ENCODING): fails on a byte that is no UTF-8, else the same characters
decode(s) ==
    [ ok |-> \A k \in 1..Len(s) : s[k] # BAD_BYTE, str |-> s ]

\* str.split(sep): the pieces between the separators; one piece more than separators
split(s, sep) ==
    LET at == { k \in 1..Len(s) : s[k] = sep }
        n == Cardinality(at)
        cut[j \in 0..(n + 1)] ==
            IF j = 0 THEN 0
            ELSE IF j = n + 1 THEN Len(s) + 1
            ELSE CHOOSE k \in at : Cardinality({ i \in at : i <= k }) = j
    IN  [ j \in 1..(n + 1) |-> SubSeq(s, cut[j - 1] + 1, cut[j] - 1) ]

\* fobj_src.readline() at offset p: up to and including the next line feed, or to the end
readline(s, p) ==
    LET nl == { k \in (p + 1)..Len(s) : s[k] = LF }
    IN  IF nl = {} THEN SubSeq(s, p + 1, Len(s)) ELSE SubSeq(s, p + 1, Min(nl))

\* PATTERN_DATA with a last field that stops at no comma: \A((?:[^,]*,){len(HEADER)-1}[^\r\n]*)
PATTERN_DATA_keeps_trailing_fields(line) ==
    LET n == Len(HEADER) - 1
        commas == { k \in 1..Len(line) : line[k] = COMMA }
    IN  IF Cardinality(commas) < n THEN [ matched |-> FALSE, group |-> << >> ]
        ELSE LET last == CHOOSE k \in commas : Cardinality({ j \in commas : j <= k }) = n
                 stops == { k \in (last + 1)..Len(line) : line[k] \in { CR, LF } }
                 end == IF stops = {} THEN Len(line) ELSE Min(stops) - 1
             IN  [ matched |-> TRUE, group |-> SubSeq(line, 1, end) ]

\* PATTERN_DATA.match(line): \A((?:[^,]*,){len(HEADER)-1}[^,\r\n]*)
\* [^,]* also matches CR and LF, so the match needs len(HEADER)-1 commas in the line
\* and nothing else; the last field of group 1 ends before the next comma, CR or LF.
PATTERN_DATA(line) ==
    LET n == Len(HEADER) - 1
        commas == { k \in 1..Len(line) : line[k] = COMMA }
    IN  IF Cardinality(commas) < n THEN [ matched |-> FALSE, group |-> << >> ]
        ELSE LET last == CHOOSE k \in commas : Cardinality({ j \in commas : j <= k }) = n
                 stops == { k \in (last + 1)..Len(line) : line[k] \in { COMMA, CR, LF } }
                 end == IF stops = {} THEN Len(line) ELSE Min(stops) - 1
             IN  [ matched |-> TRUE, group |-> SubSeq(line, 1, end) ]

\* fobj.write(match.group(1)) alone, the line feed forgotten
write_cleaned_without_newline(buf, group) == buf \o group

\* fobj.write(match.group(1)); fobj.write(b'\n')
write_cleaned(buf, group) == buf \o group \o << LF >>

----------------------------------------------------------------------------
(* The inputs the model runs on. *)

RECURSIVE join(_)
\* ','.join(names)
join(names) ==
    IF Len(names) = 0 THEN << >>
    ELSE IF Len(names) = 1 THEN names[1]
    ELSE names[1] \o << COMMA >> \o join(Tail(names))

\* n one-byte fields c, comma-separated
fields(c, n) == join([ i \in 1..n |-> << c >> ])

\* candidate first lines: the header with LF, with CR LF, with no terminator at all,
\* with a lower-cased name, with two names swapped, with a name missing, with a name
\* too many, with a leading blank, a line that is no UTF-8, and no first line
FirstLines == {
    join(HEADER) \o << LF >>,
    join(HEADER) \o << CR, LF >>,
    join(HEADER),
    join([ HEADER EXCEPT ![1] = << "v", "e", "n", "d", "o", "r", "i", "d" >> ]) \o << LF >>,
    join([ HEADER EXCEPT ![1] = HEADER[2], ![2] = HEADER[1] ]) \o << LF >>,
    join(SubSeq(HEADER, 1, Len(HEADER) - 1)) \o << LF >>,
    join(HEADER \o << << "x" >> >>) \o << LF >>,
    << " " >> \o join(HEADER) \o << LF >>,
    << BAD_BYTE, LF >>,
    << >>
}

\* candidate later lines, without their line feed: exactly len(HEADER) fields; three empty
\* fields more; len(HEADER) fields and a CR (a CR LF line); one field too few;
\* len(HEADER) comma-separated fields with a CR inside the 18th; an empty line; a blank
BodyLines == {
    fields("a", Len(HEADER)),
    fields("b", Len(HEADER)) \o << COMMA, COMMA, COMMA >>,
    fields("c", Len(HEADER)) \o << CR >>,
    fields("d", Len(HEADER) - 1),
    fields("e", Len(HEADER) - 2) \o << CR >> \o fields("e", 3),
    << >>,
    << " " >>
}

RECURSIVE concat_lines(_)
concat_lines(ls) ==
    IF Len(ls) = 0 THEN << >> ELSE ls[1] \o << LF >> \o concat_lines(Tail(ls))

\* the streams: a first line, up to MaxLines later lines, the last line feed present or not
Inputs ==
    { first \o body : first \in FirstLines,
                      body \in UNION { { concat_lines(ls) : ls \in [ 1..n -> BodyLines ] } : n \in 0..MaxLines } }
    \cup
    { first \o SubSeq(body, 1, Len(body) - 1) : first \in FirstLines,
                      body \in UNION { { concat_lines(ls) : ls \in [ 1..n -> BodyLines ] } : n \in 1..MaxLines } }

----------------------------------------------------------------------------
(* 01.py: main, read_green_taxi_csv, parse_green_taxi_csv, write_table_to_parquet. *)

NoTable == [ made |-> FALSE, rows |-> << >> ]

QueryIdle ==
    /\ qpc = "idle"
    /\ hour = 0
    /\ dow = 0
    /\ one_hot_hour = << >>
    /\ one_hot_dow = << >>
    /\ query = << >>
    /\ row = [ null |-> TRUE, dayofweek |-> 1, hourofday |-> 0 ]
    /\ result = << >>

\* main up to the call of read_green_taxi_csv: an empty buf, the url opened
Init ==
    /\ src \in Inputs
    /\ pos = 0
    /\ sink = << >>
    /\ pc = "header"
    /\ err = "none"
    /\ errArgs = << >>
    /\ bufClosed = FALSE
    /\ table = NoTable
    /\ parquet = NoTable
    /\ run = 1
    /\ feed = "url"
    /\ prevSink = << >>
    /\ QueryIdle

\* an exception leaves read_green_taxi_csv or parse_green_taxi_csv and then main's
\* with block, which closes buf; nothing after the with block runs
raise(e, args) ==
    /\ pc' = "raised"
    /\ err' = e
    /\ errArgs' = args
    /\ bufClosed' = TRUE

\* the first line is read and compared with HEADER
ReadHeader ==
    /\ pc = "header"
    /\ LET line == readline(src, pos)
           text == decode(rstrip(line))
       IN  /\ pos' = pos + Len(line)
           /\ IF ~text.ok
                 THEN raise("UnicodeDecodeError", << "utf-8", rstrip(line) >>)
              ELSE IF split(text.str, COMMA) # HEADER
                 THEN raise("InvalidHeaderError", << line >>)
              ELSE /\ pc' = "skip"
                   /\ UNCHANGED << err, errArgs, bufClosed >>
    /\ UNCHANGED << src, sink, table, parquet, run, feed, prevSink >>
    /\ UNCHANGED queryVars

\* the while loop without its fobj_src.seek(offset): the first non-blank line stays consumed
SkipBlank_without_seek ==
    /\ pc = "skip"
    /\ LET line == readline(src, pos)
       IN  IF rstrip(line) # << >>
              THEN /\ pos' = pos + Len(line)
                   /\ pc' = "data"
           ELSE IF line = << >>
              THEN /\ pos' = pos
                   /\ pc' = "returned"
           ELSE /\ pos' = pos + Len(line)
                /\ pc' = "skip"
    /\ UNCHANGED << src, sink, err, errArgs, bufClosed, table, parquet, run, feed, prevSink >>
    /\ UNCHANGED queryVars

\* one turn of the while loop: a whitespace-only line is passed over, the first other
\* line is un-read by seeking back to its offset, the end of the file returns
SkipBlank ==
    /\ pc = "skip"
    /\ LET offset == pos
           line == readline(src, pos)
       IN  IF rstrip(line) # << >>
              THEN /\ pos' = offset
                   /\ pc' = "data"
           ELSE IF line = << >>
              THEN /\ pos' = pos
                   /\ pc' = "returned"
           ELSE /\ pos' = pos + Len(line)
                /\ pc' = "skip"
    /\ UNCHANGED << src, sink, err, errArgs, bufClosed, table, parquet, run, feed, prevSink >>
    /\ UNCHANGED queryVars

\* the for loop with "continue" in place of the raise: a line that does not match is dropped
DataLine_drops_bad_line ==
    /\ pc = "data"
    /\ pos < Len(src)
    /\ LET line == readline(src, pos)
           match == PATTERN_DATA(line)
       IN  /\ pos' = pos + Len(line)
           /\ sink' = IF match.matched THEN write_cleaned(sink, match.group) ELSE sink
    /\ UNCHANGED << pc, err, errArgs, bufClosed >>
    /\ UNCHANGED << src, table, parquet, run, feed, prevSink >>
    /\ UNCHANGED queryVars

\* the for loop with "break" in place of the raise: the function returns what it has
DataLine_returns_on_bad_line ==
    /\ pc = "data"
    /\ pos < Len(src)
    /\ LET line == readline(src, pos)
           match == PATTERN_DATA(line)
       IN  /\ pos' = pos + Len(line)
           /\ IF ~match.matched
                 THEN /\ pc' = "returned"
                      /\ UNCHANGED sink
              ELSE /\ sink' = write_cleaned(sink, match.group)
                   /\ UNCHANGED pc
    /\ UNCHANGED << err, errArgs, bufClosed >>
    /\ UNCHANGED << src, table, parquet, run, feed, prevSink >>
    /\ UNCHANGED queryVars

\* the for loop raising InvalidDataError(line.rstrip())
DataLine_raises_stripped_line ==
    /\ pc = "data"
    /\ pos < Len(src)
    /\ LET line == readline(src, pos)
           match == PATTERN_DATA(line)
       IN  /\ pos' = pos + Len(line)
           /\ IF ~match.matched
                 THEN /\ raise("InvalidDataError", << rstrip(line) >>)
                      /\ UNCHANGED sink
              ELSE /\ sink' = write_cleaned(sink, match.group)
                   /\ UNCHANGED << pc, err, errArgs, bufClosed >>
    /\ UNCHANGED << src, table, parquet, run, feed, prevSink >>
    /\ UNCHANGED queryVars

\* the for loop passing over whitespace-only lines as the while loop does
DataLine_skips_blank_line ==
    /\ pc = "data"
    /\ pos < Len(src)
    /\ LET line == readline(src, pos)
           match == PATTERN_DATA(line)
       IN  /\ pos' = pos + Len(line)
           /\ IF rstrip(line) = << >>
                 THEN UNCHANGED << sink, pc, err, errArgs, bufClosed >>
              ELSE IF ~match.matched
                 THEN /\ raise("InvalidDataError", << line >>)
                      /\ UNCHANGED sink
              ELSE /\ sink' = write_cleaned(sink, match.group)
                   /\ UNCHANGED << pc, err, errArgs, bufClosed >>
    /\ UNCHANGED << src, table, parquet, run, feed, prevSink >>
    /\ UNCHANGED queryVars

\* one turn of the for loop: the line matches and its group is written, or it does not
\* and InvalidDataError(line) is raised
DataLine ==
    /\ pc = "data"
    /\ pos < Len(src)
    /\ LET line == readline(src, pos)
           match == PATTERN_DATA(line)
       IN  /\ pos' = pos + Len(line)
           /\ IF ~match.matched
                 THEN /\ raise("InvalidDataError", << line >>)
                      /\ UNCHANGED sink
              ELSE /\ sink' = write_cleaned(sink, match.group)
                   /\ UNCHANGED << pc, err, errArgs, bufClosed >>
    /\ UNCHANGED << src, table, parquet, run, feed, prevSink >>
    /\ UNCHANGED queryVars

\* the for loop finds the file exhausted and read_green_taxi_csv returns
DataEnd ==
    /\ pc = "data"
    /\ pos = Len(src)
    /\ pc' = "returned"
    /\ UNCHANGED << src, pos, sink, err, errArgs, bufClosed, table, parquet, run, feed, prevSink >>
    /\ UNCHANGED queryVars

\* read_csv's records: the buffer cut at every LF and CR, empty lines dropped
csv_records(buf) ==
    LET byLF == split(buf, LF)
        byCR == [ i \in 1..Len(byLF) |-> split(byLF[i], CR) ]
        flat[i \in 0..Len(byLF)] == IF i = 0 THEN << >> ELSE flat[i - 1] \o byCR[i]
    IN  SelectSeq(flat[Len(byLF)], LAMBDA r : r # << >>)

\* main: buf.seek(0); parse_green_taxi_csv(buf) returns a table of one row per record,
\* each record holding one token per column of SCHEMA
ParseOk ==
    /\ pc = "returned"
    /\ LET records == csv_records(sink)
           rows == [ i \in 1..Len(records) |-> split(records[i], COMMA) ]
       IN  /\ \A i \in 1..Len(rows) : Len(rows[i]) = Len(SCHEMA_names)
           /\ table' = [ made |-> TRUE, rows |-> rows ]
    /\ pc' = "parsed"
    /\ bufClosed' = TRUE
    /\ UNCHANGED << src, pos, sink, err, errArgs, parquet, run, feed, prevSink >>
    /\ UNCHANGED queryVars

\* read_csv raises: a record with another number of columns, a token its column's
\* type does not accept, an empty buffer
ParseFail ==
    /\ pc = "returned"
    /\ raise("ArrowInvalid", << >>)
    /\ UNCHANGED << src, pos, sink, table, parquet, run, feed, prevSink >>
    /\ UNCHANGED queryVars

\* write_table_to_parquet(table, path)
WriteParquet ==
    /\ pc = "parsed"
    /\ parquet' = table
    /\ pc' = "written"
    /\ UNCHANGED << src, pos, sink, err, errArgs, bufClosed, table, run, feed, prevSink >>
    /\ UNCHANGED queryVars

\* read_green_taxi_csv is called a second time, on what the first call wrote: either
\* the sink as it is, or the sink behind the header line
Renormalize ==
    /\ pc = "returned"
    /\ run = 1
    /\ \E f \in { "sink", "header+sink" } :
          /\ feed' = f
          /\ src' = IF f = "sink" THEN sink ELSE join(HEADER) \o << LF >> \o sink
    /\ prevSink' = sink
    /\ sink' = << >>
    /\ pos' = 0
    /\ pc' = "header"
    /\ run' = 2
    /\ UNCHANGED << err, errArgs, bufClosed, table, parquet >>
    /\ UNCHANGED queryVars

Next ==
    \/ ReadHeader
    \/ SkipBlank
    \/ DataLine
    \/ DataEnd
    \/ ParseOk
    \/ ParseFail
    \/ WriteParquet
    \/ Renormalize

Spec == Init /\ [][Next]_vars

----------------------------------------------------------------------------
(* 02.py: build_query, and the query run on one row (main: spark.sql).       *)
(* A timestamp is its number of seconds since the epoch, UTC; a coordinate is *)
(* in millionths of a degree.                                                 *)

num_hours == 24
num_days == 7
lon_min == -73794694
lon_max == -73776283
lat_min == 40640668
lat_max == 40651381

\* Spark SQL's HOUR and DAYOFWEEK of a timestamp in a UTC session; DAYOFWEEK is
\* 1 for Sunday .. 7 for Saturday, and 1970-01-01 was a Thursday
HOUR(ts) == (ts \div 3600) % 24
DAYOFWEEK(ts) == (((ts \div 86400) + 4) % 7) + 1

\* the rows the query is run on: a pickup on each day of a week, early or late in
\* the day, a dropoff before or after it, at JFK or elsewhere; and a row of nulls
Rows ==
    { [ null |-> FALSE,
        lpep_pickup_datetime |-> d * 86400 + h * 3600,
        lpep_dropoff_datetime |-> d * 86400 + h * 3600 + len,
        Pickup_longitude |-> at[1], Pickup_latitude |-> at[2],
        Dropoff_longitude |-> -73950000, Dropoff_latitude |-> 40780000 ] :
        d \in 0..6, h \in { 0, 23 }, len \in { -60, 600 },
        at \in { << -73780000, 40645000 >>, << -73950000, 40780000 >> } }
    \cup
    { [ null |-> TRUE,
        lpep_pickup_datetime |-> 0, lpep_dropoff_datetime |-> 0,
        Pickup_longitude |-> 0, Pickup_latitude |-> 0,
        Dropoff_longitude |-> 0, Dropoff_latitude |-> 0 ] }

PipeIdle ==
    /\ src = << >>
    /\ pos = 0
    /\ sink = << >>
    /\ pc = "idle"
    /\ err = "none"
    /\ errArgs = << >>
    /\ bufClosed = FALSE
    /\ table = NoTable
    /\ parquet = NoTable
    /\ run = 1
    /\ feed = "url"
    /\ prevSink = << >>

\* build_query is entered; the view holds a row
InitQuery ==
    /\ PipeIdle
    /\ qpc = "hours"
    /\ hour = 0
    /\ dow = 0
    /\ one_hot_hour = << >>
    /\ one_hot_dow = << >>
    /\ query = << >>
    /\ row \in Rows
    /\ result = << >>

\* CASE WHEN HOUR(lpep_pickup_datetime) = {hour} THEN 1 ELSE 0 END AS Pickup_hour_is_{hour}
HourClause ==
    /\ qpc = "hours"
    /\ hour < num_hours
    /\ one_hot_hour' = Append(one_hot_hour,
          [ fn |-> "HOUR", eq |-> hour, alias |-> << "Pickup_hour_is_", hour >> ])
    /\ hour' = hour + 1
    /\ UNCHANGED << qpc, dow, one_hot_dow, query, row, result >>
    /\ UNCHANGED pipeVars

\* range(num_hours) is exhausted
HoursDone ==
    /\ qpc = "hours"
    /\ hour = num_hours
    /\ qpc' = "dows"
    /\ UNCHANGED << hour, dow, one_hot_hour, one_hot_dow, query, row, result >>
    /\ UNCHANGED pipeVars

\* CASE WHEN DAYOFWEEK(lpep_pickup_datetime) = {dow} THEN 1 ELSE 0 END AS Pickup_dow_is_{dow}
DowClause ==
    /\ qpc = "dows"
    /\ dow < num_days
    /\ one_hot_dow' = Append(one_hot_dow,
          [ fn |-> "DAYOFWEEK", eq |-> dow, alias |-> << "Pickup_dow_is_", dow >> ])
    /\ dow' = dow + 1
    /\ UNCHANGED << qpc, hour, one_hot_hour, query, row, result >>
    /\ UNCHANGED pipeVars

\* range(num_days) is exhausted; duration and jfk are built and the template filled
FormatQuery ==
    /\ qpc = "dows"
    /\ dow = num_days
    /\ query' = one_hot_hour \o one_hot_dow \o
          << [ fn |-> "DURATION", eq |-> 0, alias |-> << "Duration_seconds", 0 >> ],
             [ fn |-> "JFK", eq |-> 0, alias |-> << "Pickup_or_dropoff_at_JFK", 0 >> ] >>
    /\ qpc' = "built"
    /\ UNCHANGED << hour, dow, one_hot_hour, one_hot_dow, row, result >>
    /\ UNCHANGED pipeVars

\* the value of one SELECT expression on a row; a comparison with NULL is not true,
\* so a CASE on a null column takes its ELSE (and 0 stands for a null duration)
eval(clause, r) ==
    IF clause.fn = "HOUR"
       THEN IF ~r.null /\ HOUR(r.lpep_pickup_datetime) = clause.eq THEN 1 ELSE 0
    ELSE IF clause.fn = "DAYOFWEEK"
       THEN IF ~r.null /\ DAYOFWEEK(r.lpep_pickup_datetime) = clause.eq THEN 1 ELSE 0
    ELSE IF clause.fn = "DURATION"
       THEN IF r.null THEN 0 ELSE r.lpep_dropoff_datetime - r.lpep_pickup_datetime
    ELSE IF /\ ~r.null
            /\ \/ /\ lon_min <= r.Pickup_longitude /\ r.Pickup_longitude <= lon_max
                  /\ lat_min <= r.Pickup_latitude /\ r.Pickup_latitude <= lat_max
               \/ /\ lon_min <= r.Dropoff_longitude /\ r.Dropoff_longitude <= lon_max
                  /\ lat_min <= r.Dropoff_latitude /\ r.Dropoff_latitude <= lat_max
       THEN 1 ELSE 0

\* spark.sql(build_query(...)): every derived column of the row
RunQuery ==
    /\ qpc = "built"
    /\ result' = [ i \in 1..Len(query) |->
                      [ alias |-> query[i].alias, value |-> eval(query[i], row) ] ]
    /\ qpc' = "evaluated"
    /\ UNCHANGED << hour, dow, one_hot_hour, one_hot_dow, query, row >>
    /\ UNCHANGED pipeVars

NextQuery ==
    \/ HourClause
    \/ HoursDone
    \/ DowClause
    \/ FormatQuery
    \/ RunQuery

SpecQuery == InitQuery /\ [][NextQuery]_vars

----------------------------------------------------------------------------
(* What the claims speak of, said of the input bytes alone. *)

\* H: the number of schema columns
H == Len(HEADER)

RECURSIVE RawLines(_)
\* the lines of a stream, each with its line feed (the last one may have none)
RawLines(s) ==
    IF s = << >> THEN << >>
    ELSE LET nl == { k \in 1..Len(s) : s[k] = LF }
             n == IF nl = {} THEN Len(s) ELSE Min(nl)
         IN  << SubSeq(s, 1, n) >> \o RawLines(SubSeq(s, n + 1, Len(s)))

RECURSIVE Flat(_)
Flat(ls) == IF ls = << >> THEN << >> ELSE Head(ls) \o Flat(Tail(ls))

FirstLine(s) == IF s = << >> THEN << >> ELSE Head(RawLines(s))

Blank(l) == \A k \in 1..Len(l) : l[k] \in WHITESPACE

\* the first line is the expected names, comma-separated, then nothing but whitespace
HeaderOK(s) ==
    LET l == FirstLine(s)
        n == Len(join(HEADER))
    IN  /\ Len(l) >= n
        /\ SubSeq(l, 1, n) = join(HEADER)
        /\ Blank(SubSeq(l, n + 1, Len(l)))

\* the lines from the first non-blank line after the header onward
DataLines(s) ==
    LET rest == Tail(RawLines(s))
        nb == { i \in 1..Len(rest) : ~Blank(rest[i]) }
    IN  IF nb = {} THEN << >> ELSE SubSeq(rest, Min(nb), Len(rest))

\* where the first of them starts
FirstDataOffset(s) == Len(s) - Len(Flat(DataLines(s)))

Commas(l) == Cardinality({ k \in 1..Len(l) : l[k] = COMMA })

\* comma-separated fields of a line
NumFields(l) == Commas(l) + 1

\* fields before the first carriage return or line feed of a line
NumFieldsBeforeTerminator(l) ==
    LET t == { k \in 1..Len(l) : l[k] \in { CR, LF } }
    IN  NumFields(IF t = {} THEN l ELSE SubSeq(l, 1, Min(t) - 1))

RECURSIVE TakeFields(_, _, _)
\* scan l from byte i with c commas passed: where the H-th field ends
TakeFields(l, i, c) ==
    IF i > Len(l) THEN Len(l)
    ELSE IF c = H - 1 /\ l[i] \in { COMMA, CR, LF } THEN i - 1
    ELSE TakeFields(l, i + 1, IF l[i] = COMMA THEN c + 1 ELSE c)

\* the first H fields of a raw line and one line feed
Cleaned(l) == SubSeq(l, 1, TakeFields(l, 1, 0)) \o << LF >>

CleanedAll(ls) == Flat([ i \in 1..Len(ls) |-> Cleaned(ls[i]) ])

\* how many leading lines of ls have H fields or more
GoodCount(ls) == Max({ n \in 0..Len(ls) : \A i \in 1..n : NumFields(ls[i]) >= H })

\* read_green_taxi_csv is over: it returned or raised, or main went on after it
NormalizationOver == pc \notin { "header", "skip", "data" }

----------------------------------------------------------------------------
(* The claims. *)

\* C1: when the first line matches the header and every line from the first non-blank
\* line onward has at least H comma-separated fields, read_green_taxi_csv raises nothing
\* and the sink holds, in input order, one cleaned line per data line: the first H
\* fields of the raw line and one line feed, whatever followed them in the raw line.
C1_OneCleanedLinePerDataLine ==
    ( /\ NormalizationOver
      /\ HeaderOK(src)
      /\ \A i \in 1..Len(DataLines(src)) : NumFields(DataLines(src)[i]) >= H )
    => /\ err \in { "none", "ArrowInvalid" }
       /\ sink = CleanedAll(DataLines(src))
       /\ Cardinality({ k \in 1..Len(sink) : sink[k] = LF }) = Len(DataLines(src))

\* C1's case: two data lines went through, one of them with trailing fields dropped
C1_Witness ==
    /\ pc = "returned"
    /\ run = 1
    /\ HeaderOK(src)
    /\ Len(DataLines(src)) = 2
    /\ \A i \in 1..2 : NumFields(DataLines(src)[i]) >= H
    /\ \E i \in 1..2 : NumFields(DataLines(src)[i]) > H
    /\ Len(sink) < Len(Flat(DataLines(src)))

\* C2: whenever the first line's fields differ from the expected header (an empty
\* stream included), the run fails with InvalidHeaderError carrying the raw first
\* line, has read nothing beyond that line and has written nothing.
C2_InvalidHeader ==
    ( pc # "header" /\ ~HeaderOK(src) )
    => /\ pc = "raised"
       /\ err = "InvalidHeaderError"
       /\ errArgs = << FirstLine(src) >>
       /\ pos = Len(FirstLine(src))
       /\ sink = << >>

\* C3 as claimed: a data line with fewer than H fields before its first carriage
\* return or line feed makes the run fail with InvalidDataError carrying that line,
\* with nothing read or written after it.
C3_AsClaimed ==
    LET ls == DataLines(src)
        short == { i \in 1..Len(ls) : NumFieldsBeforeTerminator(ls[i]) < H }
    IN  ( NormalizationOver /\ HeaderOK(src) /\ short # {} )
        => /\ err = "InvalidDataError"
           /\ errArgs[1] = ls[Min(short)]
           /\ pos = FirstDataOffset(src) + Len(Flat(SubSeq(ls, 1, Min(short))))
           /\ sink = CleanedAll(SubSeq(ls, 1, Min(short) - 1))

\* C3 amended: a data line with fewer than H comma-separated fields before its line
\* feed (or the end of the stream) makes the run fail with InvalidDataError carrying
\* that line; the read position stays right behind it and the sink holds the cleaned
\* lines before it and nothing more.
C3_TooFewFields ==
    LET ls == DataLines(src)
        short == { i \in 1..Len(ls) : NumFields(ls[i]) < H }
    IN  ( NormalizationOver /\ HeaderOK(src) /\ short # {} )
        => /\ pc = "raised"
           /\ err = "InvalidDataError"
           /\ errArgs[1] = ls[Min(short)]
           /\ pos = FirstDataOffset(src) + Len(Flat(SubSeq(ls, 1, Min(short))))
           /\ sink = CleanedAll(SubSeq(ls, 1, Min(short) - 1))

\* C3's case: the first data line was one field short, and a line with enough
\* fields behind it was left unread
C3_Witness ==
    /\ pc = "raised"
    /\ err = "InvalidDataError"
    /\ run = 1
    /\ NumFields(errArgs[1]) = H - 1
    /\ pos < Len(src)
    /\ NumFields(DataLines(src)[2]) >= H

\* C4: a table, and a Parquet file, exist only for a run without any error, and then
\* the table has one row of H tokens per data line of the input; after any error
\* there is no table and no file, and the buffer with the lines cleaned so far is gone.
C4_CompleteTableOrNone ==
    /\ table.made =>
          /\ err = "none"
          /\ HeaderOK(src)
          /\ Len(table.rows) = Len(DataLines(src))
          /\ \A i \in 1..Len(table.rows) :
                /\ Len(table.rows[i]) = H
                /\ join(table.rows[i]) \o << LF >> = Cleaned(DataLines(src)[i])
    /\ parquet.made => ( table.made /\ parquet = table )
    /\ err # "none" => ( ~table.made /\ ~parquet.made /\ bufClosed /\ pc = "raised" )

\* C4's case: a cleaned line was in the buffer when the next line raised InvalidDataError
C4_Witness ==
    /\ err = "InvalidDataError"
    /\ sink # << >>
    /\ bufClosed
    /\ ~table.made

\* C5: after a valid header the blank lines before the first non-blank line are never
\* written; the data loop starts exactly at the first non-blank line, so that line is
\* handled once, first; with no non-blank line at all the function returns without an
\* error and with an empty sink.
C5_BlankLinesSkipped ==
    HeaderOK(src) =>
        LET ls == DataLines(src)
        IN  /\ pc = "skip" => ( sink = << >> /\ pos <= FirstDataOffset(src) )
            /\ pc = "data" =>
                  /\ ls # << >>
                  /\ pos >= FirstDataOffset(src)
                  /\ ( pos = FirstDataOffset(src) ) <=> ( sink = << >> )
            /\ ( NormalizationOver /\ ls = << >> ) =>
                  /\ sink = << >>
                  /\ err \in { "none", "ArrowInvalid" }
            /\ ( NormalizationOver /\ ls # << >> ) =>
                  IF NumFields(ls[1]) >= H
                     THEN /\ Len(sink) >= Len(Cleaned(ls[1]))
                          /\ SubSeq(sink, 1, Len(Cleaned(ls[1]))) = Cleaned(ls[1])
                          /\ Cardinality({ k \in 1..Len(sink) : sink[k] = LF }) <= Len(ls)
                     ELSE /\ err = "InvalidDataError"
                          /\ errArgs = << ls[1] >>
                          /\ sink = << >>

\* C5's case: a blank line was passed over and the line behind it was cleaned
C5_Witness ==
    /\ pc = "returned"
    /\ run = 1
    /\ HeaderOK(src)
    /\ FirstDataOffset(src) > Len(FirstLine(src))
    /\ Len(DataLines(src)) = 1
    /\ sink = Cleaned(DataLines(src)[1])

\* C6 as claimed: an InvalidDataError carries the offending raw line and that line's
\* position in the input (its offset or its line number).
C6_AsClaimed ==
    err = "InvalidDataError" =>
        /\ Len(errArgs) = 2
        /\ errArgs[1] = SubSeq(src, pos - Len(errArgs[1]) + 1, pos)
        /\ errArgs[2] \in 0..Len(src)

\* C6 amended: an InvalidDataError carries the offending raw line, line feed included,
\* and nothing else.
C6_CarriesRawLine ==
    err = "InvalidDataError" =>
        LET ls == DataLines(src)
        IN  /\ errArgs = << ls[GoodCount(ls) + 1] >>
            /\ errArgs[1] = SubSeq(src, pos - Len(errArgs[1]) + 1, pos)

\* C6's case: the offending line had bytes and a line feed, and the error keeps both
C6_Witness ==
    /\ err = "InvalidDataError"
    /\ Len(errArgs[1]) >= 2
    /\ errArgs[1][Len(errArgs[1])] = LF
    /\ errArgs[1][1] # LF

C10_BlankDataLineRaises ==
    LET ls == DataLines(src)
        blanks == { i \in 2..Len(ls) : Blank(ls[i]) /\ GoodCount(ls) >= i - 1 }
    IN  ( NormalizationOver /\ HeaderOK(src) /\ blanks # {} )
        => /\ pc = "raised"
           /\ err = "InvalidDataError"
           /\ Blank(errArgs[1])
           /\ Cardinality({ k \in 1..Len(sink) : sink[k] = LF }) = Min(blanks) - 1
           /\ Len(src) - pos = Len(Flat(SubSeq(ls, Min(blanks) + 1, Len(ls))))

\* C10's case: one line was cleaned and the empty line that ends the file raised
C10_Witness ==
    /\ pc = "raised"
    /\ err = "InvalidDataError"
    /\ errArgs = << << LF >> >>
    /\ sink # << >>
    /\ pos = Len(src)

\* the value of a derived column of the evaluated row
Column(name, k) ==
    LET i == CHOOSE j \in 1..Len(result) : result[j].alias = << name, k >>
    IN  result[i].value

\* the day of the week of a timestamp, 0 for Sunday .. 6 for Saturday
Weekday(ts) == ((ts \div 86400) + 4) % 7

\* C9: on every row with a pickup timestamp exactly one of Pickup_dow_is_0 ..
\* Pickup_dow_is_6 is 1, and it is the column of the pickup's day of the week,
\* counted from 0 for Sunday to 6 for Saturday.
C9_OneHotDayOfWeek ==
    ( qpc = "evaluated" /\ ~row.null )
    => /\ \A k \in 0..6 : \E j \in 1..Len(result) : result[j].alias = << "Pickup_dow_is_", k >>
       /\ \A k \in 0..6 :
             Column("Pickup_dow_is_", k) = IF k = Weekday(row.lpep_pickup_datetime) THEN 1 ELSE 0

====
